---- MODULE Spec2Model ----
(***************************************************************************)
(* The write-ahead-log record writer xengine::db::log::Writer              *)
(* (src/plugin/x/src/query_formatter.h, lines 147-318).                    *)
(*                                                                         *)
(* A writer fragments logical records over fixed-size blocks and hands     *)
(* each physical record (header + payload fragment) to a file sink.        *)
(*                                                                         *)
(* Representation choices:                                                 *)
(*  - a Slice is what the code passes around, a data pointer and a size;   *)
(*    a pointer is an address in the caller's memory;                      *)
(*  - dest_ is the file sink, recorded as the sequence of append() calls   *)
(*    made on it together with the value each returned; the bytes the sink *)
(*    accepted are those of the calls that returned 0;                     *)
(*  - TLC integers are 32-bit signed, so 32-bit unsigned quantities are    *)
(*    drawn below 2^31 and the 64-bit log number is a pair of 32-bit       *)
(*    halves [hi, lo].                                                     *)
(***************************************************************************)
EXTENDS Integers, Naturals, Sequences, FiniteSets, TLC

(* ---------- bounds of the model ---------- *)

\* number of AddRecord calls explored
MaxCalls == 2

\* caller threads of the externally serialized specification
SeqThreads == {1}

\* payload lengths the callers use: empty, small, lengths that leave exactly
\* a header / less than a header / nothing in a fresh block for either
\* framing, one that needs two blocks and one that needs three
Lens == {0, 5, 32746, 32750, 32754, 32757, 32761, 40000, 70000}

\* payload lengths of the calls that pass their own checksum
CrcLens == {0, 40000}

\* addresses of the callers' buffers
Datas == {16}

\* checksums callers pass to AddRecord(slice, crc)
Crcs == {16909060}

\* log numbers and recycle modes writers are constructed with
LogNumbers == {[hi |-> 0, lo |-> 5], [hi |-> 3, lo |-> 84281096]}

(* ---------- db/log_format.h ---------- *)

kFullType == 1
kFirstType == 2
kMiddleType == 3
kLastType == 4
kRecyclableFullType == 5
kRecyclableFirstType == 6
kRecyclableMiddleType == 7
kRecyclableLastType == 8

kBlockSize == 32768

\* checksum (4 bytes), length (2 bytes), type (1 byte)
kHeaderSize == 4 + 2 + 1

\* checksum (4 bytes), length (2 bytes), type (1 byte), log number (4 bytes)
kRecyclableHeaderSize == 4 + 2 + 1 + 4

(* ---------- collaborators ---------- *)

\* util/coding.h EncodeFixed32: four bytes, least significant first
EncodeFixed32(value) ==
  << value % 256, (value \div 256) % 256,
     (value \div 65536) % 256, (value \div 16777216) % 256 >>

\* static_cast<uint32_t>(uint64_t): the low 32 bits
CastUint32(v64) == v64.lo

\* the checksum of the bytes a slice designates: a value that tells apart
\* the slices the callers and the writer form
calculate_crc(slice) == 12345 + 257 * slice.size + 7 * slice.data

Min(a, b) == IF a < b THEN a ELSE b

VARIABLES
  block_offset_,       \* Writer::block_offset_
  log_number_,         \* Writer::log_number_
  recycle_log_files_,  \* Writer::recycle_log_files_
  dest_,               \* the sink: every append() made on it, with its result
  pc,                  \* per thread: "idle", "roll" (line 234) or "emit" (line 248)
  call,                \* per thread: index in calls of the call it runs
  crc,                 \* per thread: add_record_with_crc's crc argument
  header_size,         \* per thread: local header_size (line 225)
  ptr,                 \* per thread: local ptr
  left,                \* per thread: local left
  begin,               \* per thread: local begin
  calls,               \* history: the AddRecord calls made, with their results
  assert_failed,       \* history: the assert() statements that evaluated to false
  ctor,                \* the constructor that built the writer: "primary" or "compat"
  dest_arg,            \* the constructor's dest argument: "sink" or "null"
  dest_ptr,            \* the pointer Writer::dest_: "sink", "null" or "wild"
  use_allocator,       \* what the sink's use_allocator() returns
  released,            \* history: the releases of an object through dest_
  writer               \* "alive", "destroyed", "crashed" or "undefined"

\* the state of the writer's lifetime: construction and teardown
lifeVars == << ctor, dest_arg, dest_ptr, use_allocator, released, writer >>

vars == << block_offset_, log_number_, recycle_log_files_, dest_, pc, call, crc,
           header_size, ptr, left, begin, calls, assert_failed, ctor, dest_arg,
           dest_ptr, use_allocator, released, writer >>

(* ---------- Writer::Writer ---------- *)

\* the members both constructors initialise (lines 168-171, 182-184), and the
\* threads, none of which is in a call
MemberInit(threads) ==
  /\ block_offset_ = 0
  /\ log_number_ \in LogNumbers
  /\ recycle_log_files_ \in BOOLEAN
  /\ dest_ = << >>
  /\ pc = [t \in threads |-> "idle"]
  /\ call = [t \in threads |-> 0]
  /\ crc = [t \in threads |-> 0]
  /\ header_size = [t \in threads |-> 0]
  /\ ptr = [t \in threads |-> 0]
  /\ left = [t \in threads |-> 0]
  /\ begin = [t \in threads |-> FALSE]
  /\ calls = << >>
  /\ assert_failed = {}

\* the primary constructor stores its dest argument in dest_ (line 168)
PrimaryCtor(dest, sink_use_allocator) ==
  /\ ctor = "primary"
  /\ dest_arg = dest
  /\ dest_ptr = dest
  /\ use_allocator = sink_use_allocator
  /\ released = << >>
  /\ writer = "alive"

\* a writer built by the primary constructor on a sink; AddRecord never asks the
\* sink for use_allocator()
WriterInit(threads) == MemberInit(threads) /\ PrimaryCtor("sink", FALSE)

Init == WriterInit(SeqThreads)

(* ---------- the file sink ---------- *)

\* what ConcurrentDirectFileWriter::append may return: 0 accepted, else rejected
SinkResults == {0, -1}

\* the literal "\x00\x00\x00\x00\x00\x00\x00\x00\x00\x00" with its terminator
ZeroLiteral == [i \in 1..11 |-> 0]

NoPayload == [data |-> 0, size |-> 0]

\* variant: the padding is one byte short
PadAppend_OneShort(c, n, ret, at, hs) ==
  [call |-> c, kind |-> "pad", bytes |-> SubSeq(ZeroLiteral, 1, n - 1),
   payload |-> NoPayload, ret |-> ret, at |-> at, sized |-> hs]

\* dest_->append(Slice(literal, n)) returning ret, made by call c at cursor at
PadAppend(c, n, ret, at, hs) ==
  [call |-> c, kind |-> "pad", bytes |-> SubSeq(ZeroLiteral, 1, n),
   payload |-> NoPayload, ret |-> ret, at |-> at, sized |-> hs]

\* dest_->append(Slice(buf, hs_emit), Slice(p, n)) returning ret
RecordAppend(c, buf, hs_emit, p, n, ret, at, hs) ==
  [call |-> c, kind |-> "record", bytes |-> SubSeq(buf, 1, hs_emit),
   payload |-> [data |-> p, size |-> n], ret |-> ret, at |-> at, sized |-> hs]

(* ---------- Writer::AddRecord ---------- *)

HeaderSizeOf(recycle) == IF recycle THEN kRecyclableHeaderSize ELSE kHeaderSize

\* entry of add_record_with_crc(slice, c): lines 221-232
BeginCall(t, slice, c, given) ==
  /\ writer = "alive"
  /\ pc[t] = "idle"
  /\ Len(calls) < MaxCalls
  /\ calls' = Append(calls, [thread |-> t, slice |-> slice, crc |-> c,
                             given |-> given, start |-> block_offset_,
                             status |-> "running", end |-> 0])
  /\ call' = [call EXCEPT ![t] = Len(calls) + 1]
  /\ crc' = [crc EXCEPT ![t] = c]
  /\ header_size' = [header_size EXCEPT ![t] = HeaderSizeOf(recycle_log_files_)]
  /\ ptr' = [ptr EXCEPT ![t] = slice.data]
  /\ left' = [left EXCEPT ![t] = slice.size]
  /\ begin' = [begin EXCEPT ![t] = TRUE]
  /\ pc' = [pc EXCEPT ![t] = "roll"]
  /\ UNCHANGED << block_offset_, log_number_, recycle_log_files_, dest_, assert_failed >>
  /\ UNCHANGED lifeVars

\* Status Writer::AddRecord(const Slice& slice)
AddRecord(t) ==
  \E d \in Datas, n \in Lens :
    LET slice == [data |-> d, size |-> n]
    IN  BeginCall(t, slice, calculate_crc(slice), FALSE)

\* Status Writer::AddRecord(const Slice& slice, uint32_t crc)
AddRecordCrc(t) ==
  \E d \in Datas, n \in CrcLens, c \in Crcs :
    BeginCall(t, [data |-> d, size |-> n], c, TRUE)

(* ---------- the fragmentation loop: block roll, lines 234-246 ---------- *)

Leftover(offset) == kBlockSize - offset

\* variant: a block with exactly a header's room left is rolled too
NeedRoll_Eager(leftover, hs) == leftover <= hs

\* variant: the room needed is the legacy header's, whatever the framing
NeedRoll_LegacyOnly(leftover, hs) == leftover < kHeaderSize

NeedRoll(leftover, hs) == leftover < hs

Roll(t) ==
  /\ writer = "alive"
  /\ pc[t] = "roll"
  /\ LET leftover == Leftover(block_offset_)
         hs == header_size[t]
     IN  /\ IF NeedRoll(leftover, hs)
            THEN /\ block_offset_' = 0
                 /\ IF leftover > 0
                    THEN /\ dest_ptr = "sink"
                         /\ \E ret \in SinkResults :
                              dest_' = Append(dest_, PadAppend(call[t], leftover, ret,
                                                               block_offset_, hs))
                         /\ assert_failed' = assert_failed
                                \cup (IF leftover >= 0 THEN {} ELSE {235})
                                \cup (IF hs <= 11 THEN {} ELSE {241})
                    ELSE /\ dest_' = dest_
                         /\ assert_failed' = assert_failed
                                \cup (IF leftover >= 0 THEN {} ELSE {235})
            ELSE /\ UNCHANGED << block_offset_, dest_ >>
                 /\ assert_failed' = assert_failed
                        \cup (IF leftover >= 0 THEN {} ELSE {235})
  /\ pc' = [pc EXCEPT ![t] = "emit"]
  /\ UNCHANGED << log_number_, recycle_log_files_, call, crc, header_size, ptr,
                  left, begin, calls >>
  /\ UNCHANGED lifeVars

(* ---------- the fragmentation loop: sizing and emission, lines 248-270 ---------- *)

\* variant: the room is computed with the recyclable header, whatever the framing
Avail_RecyclableHeader(offset, hs) == kBlockSize - offset - kRecyclableHeaderSize

\* variant: the header is not counted in the room a fragment takes
Avail_NoHeader(offset, hs) == kBlockSize - offset

\* kBlockSize - block_offset_ - header_size, before its conversion to size_t
Avail(offset, hs) == kBlockSize - offset - hs

\* variant: the two branches of the conditional are exchanged
FragmentLength_Swapped(l, avail) == IF avail < 0 THEN avail ELSE IF l < avail THEN avail ELSE l

\* (left < avail) ? left : avail, in size_t: a negative difference converts to
\* 2^64 plus itself, which is above every left
FragmentLength(l, avail) == IF avail < 0 THEN l ELSE Min(l, avail)

\* variant: the begin test comes first, so a one-fragment record is typed First
RecordType_BeginFirst(b, e, recycle) ==
  IF b THEN (IF recycle THEN kRecyclableFirstType ELSE kFirstType)
  ELSE IF e THEN (IF recycle THEN kRecyclableLastType ELSE kLastType)
  ELSE (IF recycle THEN kRecyclableMiddleType ELSE kMiddleType)

\* lines 254-264
RecordType(b, e, recycle) ==
  IF b /\ e THEN (IF recycle THEN kRecyclableFullType ELSE kFullType)
  ELSE IF b THEN (IF recycle THEN kRecyclableFirstType ELSE kFirstType)
  ELSE IF e THEN (IF recycle THEN kRecyclableLastType ELSE kLastType)
  ELSE (IF recycle THEN kRecyclableMiddleType ELSE kMiddleType)

(* ---------- Writer::EmitPhysicalRecord ---------- *)

\* a char of buf that was never assigned
Indeterminate == -1

\* variant: the boundary between the two code ranges is off by one
EmitHeaderSize_OffByOne(type) ==
  IF type <= kRecyclableFullType THEN kHeaderSize ELSE kRecyclableHeaderSize

\* header_size of EmitPhysicalRecord, lines 287-294
EmitHeaderSize(type) ==
  IF type < kRecyclableFullType THEN kHeaderSize ELSE kRecyclableHeaderSize

\* variant: the length is written most significant byte first
FormatHeader_LengthSwapped(type, n, c, log_number) ==
  EncodeFixed32(c)
    \o << (n \div 256) % 256, n % 256, type >>
    \o (IF type < kRecyclableFullType
        THEN << Indeterminate, Indeterminate, Indeterminate, Indeterminate >>
        ELSE EncodeFixed32(CastUint32(log_number)))

\* variant: the checksum written is seeded with the record type
FormatHeader_TypeSeeded(type, n, c, log_number) ==
  EncodeFixed32(c + type)
    \o << n % 256, (n \div 256) % 256, type >>
    \o (IF type < kRecyclableFullType
        THEN << Indeterminate, Indeterminate, Indeterminate, Indeterminate >>
        ELSE EncodeFixed32(CastUint32(log_number)))

\* char buf[kRecyclableHeaderSize] as formatted by lines 282-305
FormatHeader(type, n, c, log_number) ==
  EncodeFixed32(c)
    \o << n % 256, (n \div 256) % 256, type >>
    \o (IF type < kRecyclableFullType
        THEN << Indeterminate, Indeterminate, Indeterminate, Indeterminate >>
        ELSE EncodeFixed32(CastUint32(log_number)))

\* variant: the cursor advances by the payload only
NextBlockOffset_NoHeader(offset, hs_emit, n, ret) ==
  IF ret = 0 THEN offset + n ELSE offset

\* variant: the cursor advances whatever the sink answered
NextBlockOffset_Unchecked(offset, hs_emit, n, ret) == offset + hs_emit + n

\* block_offset_ after the append returned ret, lines 309-313
NextBlockOffset(offset, hs_emit, n, ret) ==
  IF ret = 0 THEN offset + hs_emit + n ELSE offset

\* variant: the result of the append is not looked at
EmitStatus_Unchecked(ret) == "OK"

\* the Status returned, lines 309-313
EmitStatus(ret) == IF ret = 0 THEN "OK" ELSE "IOError"

\* variant: the loop also goes on when nothing is left
LoopContinues_NothingLeft(status, l) == status = "OK" /\ l >= 0

\* while (s.ok() && left > 0), line 270
LoopContinues(status, l) == status = "OK" /\ l > 0

\* variant: the source pointer is not advanced
NextPtr_Stuck(p, fragment_length) == p

\* ptr += fragment_length, line 267
NextPtr(p, fragment_length) == p + fragment_length

\* variant: what is left is not decremented
NextLeft_Stuck(l, fragment_length) == l

\* left -= fragment_length, line 268
NextLeft(l, fragment_length) == l - fragment_length

\* the assert() statements of lines 249, 276, 289 and 293 that fail
EmitAsserts(offset, hs, hs_emit, n) ==
  (IF kBlockSize - offset >= hs THEN {} ELSE {249})
    \cup (IF n <= 65535 THEN {} ELSE {276})
    \cup (IF offset + hs_emit + n <= kBlockSize THEN {}
          ELSE IF hs_emit = kHeaderSize THEN {289} ELSE {293})

Emit(t) ==
  /\ writer = "alive"
  /\ dest_ptr = "sink"
  /\ pc[t] = "emit"
  /\ LET hs == header_size[t]
         avail == Avail(block_offset_, hs)
         fragment_length == FragmentLength(left[t], avail)
         end == (left[t] = fragment_length)
         type == RecordType(begin[t], end, recycle_log_files_)
         hs_emit == EmitHeaderSize(type)
         buf == FormatHeader(type, fragment_length, crc[t], log_number_)
         new_left == NextLeft(left[t], fragment_length)
     IN  \E ret \in SinkResults :
           /\ dest_' = Append(dest_, RecordAppend(call[t], buf, hs_emit, ptr[t],
                                                  fragment_length, ret,
                                                  block_offset_, hs))
           /\ block_offset_' = NextBlockOffset(block_offset_, hs_emit,
                                               fragment_length, ret)
           /\ assert_failed' = assert_failed
                  \cup EmitAsserts(block_offset_, hs, hs_emit, fragment_length)
           /\ ptr' = [ptr EXCEPT ![t] = NextPtr(ptr[t], fragment_length)]
           /\ left' = [left EXCEPT ![t] = new_left]
           /\ begin' = [begin EXCEPT ![t] = FALSE]
           /\ IF LoopContinues(EmitStatus(ret), new_left)
              THEN /\ pc' = [pc EXCEPT ![t] = "roll"]
                   /\ calls' = calls
              ELSE /\ pc' = [pc EXCEPT ![t] = "idle"]
                   /\ calls' = [calls EXCEPT
                                  ![call[t]].status = EmitStatus(ret),
                                  ![call[t]].end = block_offset_']
  /\ UNCHANGED << log_number_, recycle_log_files_, call, crc, header_size >>
  /\ UNCHANGED lifeVars

(* ---------- specification: one caller, calls made one after the other ---------- *)

Next ==
  \/ \E t \in DOMAIN pc : AddRecord(t)
  \/ \E t \in DOMAIN pc : AddRecordCrc(t)
  \/ \E t \in DOMAIN pc : Roll(t)
  \/ \E t \in DOMAIN pc : Emit(t)

Spec == Init /\ [][Next]_vars

(* ---------- reading the sink and the call history ---------- *)

\* the append() calls made by call c, in order
AppendsOf(c) == SelectSeq(dest_, LAMBDA e : e.call = c)

\* the physical records handed to the sink by call c, in order
RecordsOf(c) == SelectSeq(dest_, LAMBDA e : e.call = c /\ e.kind = "record")

Finished(c) == calls[c].status # "running"

\* every append() call c made was accepted
AllAccepted(c) == \A i \in 1..Len(dest_) : dest_[i].call = c => dest_[i].ret = 0

\* the fields a reader decodes from a header
CrcField(e) == e.bytes[1] + 256 * e.bytes[2] + 65536 * e.bytes[3] + 16777216 * e.bytes[4]
LengthField(e) == e.bytes[5] + 256 * e.bytes[6]
TypeField(e) == e.bytes[7]

\* the role a type code stands for
RoleOf(code) ==
  CASE code \in {kFullType, kRecyclableFullType} -> "Full"
    [] code \in {kFirstType, kRecyclableFirstType} -> "First"
    [] code \in {kMiddleType, kRecyclableMiddleType} -> "Middle"
    [] code \in {kLastType, kRecyclableLastType} -> "Last"
    [] OTHER -> "None"

\* the fragments r[1..k] are adjacent pieces of memory starting at address data
RECURSIVE Adjacent(_, _, _)
Adjacent(r, i, data) ==
  IF i > Len(r) THEN TRUE
  ELSE /\ r[i].payload.data = data
       /\ Adjacent(r, i + 1, data + r[i].payload.size)

RECURSIVE PayloadTotal(_, _)
PayloadTotal(r, i) ==
  IF i > Len(r) THEN 0 ELSE r[i].payload.size + PayloadTotal(r, i + 1)

(* ---------- C1 ---------- *)

\* C1: when every append of an AddRecord call is accepted, the payload fragments
\* of the physical records it emitted, concatenated in emission order, are the
\* original payload: the first fragment starts at the payload's first byte, each
\* next fragment starts where the previous one ends, the sizes add up to the
\* payload's size, and an empty payload gives one record with an empty fragment.
C1_RoundTrip ==
  \A c \in 1..Len(calls) :
    (Finished(c) /\ AllAccepted(c)) =>
      LET r == RecordsOf(c)
      IN  /\ Len(r) >= 1
          /\ Adjacent(r, 1, calls[c].slice.data)
          /\ PayloadTotal(r, 1) = calls[c].slice.size
          /\ \A i \in 1..Len(r) : LengthField(r[i]) = r[i].payload.size
          /\ (calls[c].slice.size = 0 => Len(r) = 1 /\ r[1].payload.size = 0)

\* a three-fragment record written after an empty one, everything accepted
C1_Witness ==
  /\ Len(calls) = 2
  /\ Finished(1) /\ Finished(2) /\ AllAccepted(1) /\ AllAccepted(2)
  /\ calls[1].slice.size = 0 /\ Len(RecordsOf(1)) = 1
  /\ calls[2].slice.size = 70000 /\ Len(RecordsOf(2)) = 3

(* ---------- C2 ---------- *)

\* the type code of a role under a framing
CodeOf(role, recycle) ==
  CASE role = "Full" -> IF recycle THEN kRecyclableFullType ELSE kFullType
    [] role = "First" -> IF recycle THEN kRecyclableFirstType ELSE kFirstType
    [] role = "Middle" -> IF recycle THEN kRecyclableMiddleType ELSE kMiddleType
    [] role = "Last" -> IF recycle THEN kRecyclableLastType ELSE kLastType

\* the recogniser of (Full | First Middle* Last)*: its state after the roles of
\* dest_[i..], started in state q ("out" between logical records, "in" inside one)
RECURSIVE RoleState(_, _)
RoleState(i, q) ==
  IF i > Len(dest_) THEN q
  ELSE IF dest_[i].kind # "record" THEN RoleState(i + 1, q)
  ELSE LET role == RoleOf(TypeField(dest_[i]))
       IN  IF q = "out" /\ role = "Full" THEN RoleState(i + 1, "out")
           ELSE IF q = "out" /\ role = "First" THEN RoleState(i + 1, "in")
           ELSE IF q = "in" /\ role = "Middle" THEN RoleState(i + 1, "in")
           ELSE IF q = "in" /\ role = "Last" THEN RoleState(i + 1, "out")
           ELSE "bad"

\* C2: with every append accepted, a call that emitted one fragment emitted a
\* Full record, and a call that emitted several emitted First, then Middle for
\* each fragment in between, then Last, in the numeric codes of the writer's
\* framing; so the roles written to the sink so far are a prefix of a word of
\* (Full | First Middle* Last)*, and a whole word once no call is running.
C2_Roles ==
  (\A i \in 1..Len(dest_) : dest_[i].ret = 0) =>
    /\ \A c \in 1..Len(calls) :
         Finished(c) =>
           LET r == RecordsOf(c)
               k == Len(r)
           IN  \A i \in 1..k :
                 TypeField(r[i]) =
                   CodeOf(IF k = 1 THEN "Full"
                          ELSE IF i = 1 THEN "First"
                          ELSE IF i = k THEN "Last" ELSE "Middle",
                          recycle_log_files_)
    /\ RoleState(1, "out") # "bad"
    /\ ((\A t \in DOMAIN pc : pc[t] = "idle") => RoleState(1, "out") = "out")

\* a Full record followed by a First, Middle, Last record, everything accepted
C2_Witness ==
  /\ \A i \in 1..Len(dest_) : dest_[i].ret = 0
  /\ Len(calls) = 2 /\ Finished(1) /\ Finished(2)
  /\ Len(RecordsOf(1)) = 1 /\ Len(RecordsOf(2)) = 3
  /\ RoleOf(TypeField(RecordsOf(2)[2])) = "Middle"

(* ---------- C3 ---------- *)

\* the cursor an iteration sizes its fragment at, when it starts at cursor x
AfterRoll(x, hs) == IF kBlockSize - x < hs THEN 0 ELSE x

\* the cursor after the accepted record e
CursorAfter(e) == e.at + Len(e.bytes) + e.payload.size

\* C3: when the sink rejects the k-th physical record of a call, the call has
\* returned IOError, that record is the last append the call made (no retry, no
\* later fragment, its k-1 earlier records were all accepted), and the cursor it
\* leaves is the one the rejected fragment was sized at: the cursor after the
\* k-1 accepted fragments (after the block roll of the k-th iteration, if one
\* was due), without the rejected fragment's header_size + n. A call returns
\* IOError in no other case.
C3_FailureKeepsProgress ==
  /\ \A i \in 1..Len(dest_) :
       (dest_[i].kind = "record" /\ dest_[i].ret # 0) =>
         LET c == dest_[i].call
             r == RecordsOf(c)
             k == Len(r)
             hs == HeaderSizeOf(recycle_log_files_)
         IN  /\ \A j \in (i + 1)..Len(dest_) : dest_[j].call # c
             /\ \A j \in 1..(k - 1) : r[j].ret = 0
             /\ calls[c].status = "IOError"
             /\ calls[c].end = dest_[i].at
             /\ dest_[i].at = AfterRoll(IF k = 1 THEN calls[c].start
                                        ELSE CursorAfter(r[k - 1]), hs)
             /\ (c = Len(calls) => block_offset_ = calls[c].end)
  /\ \A c \in 1..Len(calls) :
       calls[c].status = "IOError" =>
         \E i \in 1..Len(dest_) :
           dest_[i].call = c /\ dest_[i].kind = "record" /\ dest_[i].ret # 0

\* the third fragment of a record is rejected after two were accepted
C3_Witness ==
  \E c \in 1..Len(calls) :
    /\ calls[c].status = "IOError"
    /\ Len(RecordsOf(c)) = 3
    /\ RecordsOf(c)[3].ret # 0
    /\ RecordsOf(c)[1].payload.size > 0
    /\ c = Len(calls)
    /\ block_offset_ = 0

(* ---------- C4 ---------- *)

\* the appends the sink accepted, in order: the byte stream of the log file
Accepted == SelectSeq(dest_, LAMBDA e : e.ret = 0)

\* the number of bytes of one append
EntrySize(e) == Len(e.bytes) + e.payload.size

\* the offset in the stream a at which its i-th entry starts
RECURSIVE StreamPos(_, _)
StreamPos(a, i) == IF i = 1 THEN 0 ELSE StreamPos(a, i - 1) + EntrySize(a[i - 1])

\* the entries of the stream a are framed in blocks of kBlockSize bytes
BlockFramed(a, hs) ==
  \A i \in 1..Len(a) :
    LET pos == StreamPos(a, i)
        stop == pos + EntrySize(a[i])
    IN  IF a[i].kind = "record"
        THEN \* header and payload lie inside one block
             /\ pos \div kBlockSize = (stop - 1) \div kBlockSize
             \* a tail shorter than a header is followed by padding only
             /\ (/\ i < Len(a)
                 /\ stop % kBlockSize # 0
                 /\ kBlockSize - (stop % kBlockSize) < hs)
                  => a[i + 1].kind = "pad"
        ELSE \* padding is zero bytes filling a tail shorter than a header
             /\ stop % kBlockSize = 0
             /\ EntrySize(a[i]) < hs
             /\ \A j \in 1..Len(a[i].bytes) : a[i].bytes[j] = 0

\* C4: in every reachable state, whatever appends the sink rejected, the byte
\* stream the sink accepted is a sequence of kBlockSize blocks: every physical
\* record lies inside one block, and a block tail shorter than header_size is
\* zero padding.
C4_BlockFraming == BlockFramed(Accepted, HeaderSizeOf(recycle_log_files_))

(* ---------- C5 ---------- *)

\* no AddRecord call is running
BetweenCalls == \A t \in DOMAIN pc : pc[t] = "idle"

\* C5: initially and between calls, whatever the payload lengths and whatever the
\* sink accepted or rejected, 0 <= block_offset_ <= kBlockSize.
C5_CursorInBlock ==
  BetweenCalls => (0 <= block_offset_ /\ block_offset_ <= kBlockSize)

\* the cursor stands at the very end of a block after a call whose append was
\* rejected and a call that filled the block
C5_Witness ==
  /\ BetweenCalls
  /\ Len(calls) = 2
  /\ \E i \in 1..Len(dest_) : dest_[i].ret # 0
  /\ block_offset_ = kBlockSize

(* ---------- C6 ---------- *)

\* C6: no assert() of the loop or of EmitPhysicalRecord ever fails: every
\* physical record handed to the sink (accepted or not) has a fragment length of
\* at most 65535 and fits, header included, in what is left of the block at the
\* moment of emission, and at least header_size bytes are left in the block when
\* a fragment is sized.
C6_AssertsHold ==
  /\ assert_failed = {}
  /\ \A i \in 1..Len(dest_) :
       dest_[i].kind = "record" =>
         /\ dest_[i].payload.size <= 65535
         /\ dest_[i].at + Len(dest_[i].bytes) + dest_[i].payload.size <= kBlockSize
         /\ kBlockSize - dest_[i].at >= dest_[i].sized

\* a fragment that fills a whole block, and one sized with exactly a header left
C6_Witness ==
  /\ \E i \in 1..Len(dest_) :
       /\ dest_[i].kind = "record" /\ dest_[i].at = 0
       /\ Len(dest_[i].bytes) + dest_[i].payload.size = kBlockSize
  /\ \E i \in 1..Len(dest_) :
       /\ dest_[i].kind = "record"
       /\ kBlockSize - dest_[i].at = dest_[i].sized

(* ---------- C7 ---------- *)

\* C7: every physical record of one AddRecord call carries the same checksum
\* field: the value the caller passed to AddRecord(slice, crc), and for
\* AddRecord(slice) the checksum of the whole logical payload, whatever the
\* fragment's bytes, its type or the log number.
C7_ChecksumPropagation ==
  \A i \in 1..Len(dest_) :
    dest_[i].kind = "record" =>
      LET c == dest_[i].call
      IN  CrcField(dest_[i]) =
            (IF calls[c].given THEN calls[c].crc ELSE calculate_crc(calls[c].slice))

\* a record with a caller-supplied checksum and one with a computed checksum,
\* each emitted in two fragments
C7_Witness ==
  /\ Len(calls) = 2 /\ Finished(1) /\ Finished(2)
  /\ calls[1].given /\ ~calls[2].given
  /\ Len(RecordsOf(1)) = 2 /\ Len(RecordsOf(2)) = 2
  /\ RecordsOf(2)[2].ret = 0

(* ---------- C8 ---------- *)

\* the log number a reader decodes from a recyclable header
LogNumberField(e) ==
  e.bytes[8] + 256 * e.bytes[9] + 65536 * e.bytes[10] + 16777216 * e.bytes[11]

\* every header handed to the sink has the layout of the writer's framing
HeadersOfMode ==
  \A i \in 1..Len(dest_) :
    dest_[i].kind = "record" =>
      /\ IF recycle_log_files_
         THEN /\ Len(dest_[i].bytes) = 11
              /\ LogNumberField(dest_[i]) = log_number_.lo
              /\ TypeField(dest_[i]) >= kRecyclableFullType
         ELSE /\ Len(dest_[i].bytes) = 7
              /\ TypeField(dest_[i]) < kRecyclableFullType
      \* the header size fragments are sized with is the one written
      /\ dest_[i].sized = Len(dest_[i].bytes)
      \* and the one added to the cursor
      /\ \A j \in (i + 1)..Len(dest_) :
           (/\ dest_[i].ret = 0
            /\ dest_[j].call = dest_[i].call
            /\ \A m \in (i + 1)..(j - 1) : dest_[m].call # dest_[i].call)
             => LET after == dest_[i].at + dest_[i].sized + dest_[i].payload.size
                IN  dest_[j].at = IF dest_[j].kind = "pad" THEN after
                                  ELSE AfterRoll(after, dest_[i].sized)

\* C8: the log number and the recycle mode of a writer never change, and they fix
\* the framing of every record it emits: in recycle mode every header is 11 bytes
\* whose last 4 bytes are the log number modulo 2^32, least significant byte
\* first, for every role; in legacy mode every header is 7 bytes; and the header
\* size AddRecord sizes fragments with is the one EmitPhysicalRecord writes and
\* adds to the cursor.
C8_FixedFraming ==
  /\ []HeadersOfMode
  /\ [][/\ log_number_' = log_number_
        /\ recycle_log_files_' = recycle_log_files_]_vars

\* a recycle-mode writer whose log number exceeds 32 bits has emitted First,
\* Middle and Last records
C8_Witness ==
  /\ recycle_log_files_ /\ log_number_.hi # 0
  /\ \E c \in 1..Len(calls) :
       /\ Finished(c) /\ AllAccepted(c) /\ Len(RecordsOf(c)) = 3
       /\ TypeField(RecordsOf(c)[2]) = kRecyclableMiddleType

(* ---------- C9 ---------- *)

\* C9: a call whose payload of length L fits in the current block, header
\* included (header_size + L <= kBlockSize - block_offset_ at the call), and whose
\* write the sink accepts, makes exactly one append: a Full record with fragment
\* length L, no padding, and leaves block_offset_ increased by header_size + L.
C9_SingleFragment ==
  \A c \in 1..Len(calls) :
    LET hs == HeaderSizeOf(recycle_log_files_)
        L == calls[c].slice.size
        a == AppendsOf(c)
    IN  (Finished(c) /\ AllAccepted(c) /\ hs + L <= kBlockSize - calls[c].start) =>
          /\ Len(a) = 1
          /\ a[1].kind = "record"
          /\ RoleOf(TypeField(a[1])) = "Full"
          /\ LengthField(a[1]) = L /\ a[1].payload.size = L
          /\ a[1].at = calls[c].start
          /\ calls[c].end = calls[c].start + hs + L

\* a record that fits exactly in what is left of a block that is in use
C9_Witness ==
  \E c \in 1..Len(calls) :
    /\ Finished(c) /\ AllAccepted(c)
    /\ calls[c].start > 0
    /\ HeaderSizeOf(recycle_log_files_) + calls[c].slice.size = kBlockSize - calls[c].start
    /\ block_offset_ = kBlockSize

(* ---------- C10 ---------- *)

\* C10: a record longer than the payload room of the block its first fragment is
\* sized in is split greedily: with block_offset the cursor at sizing (after the
\* block roll, when one is due), the first fragment has
\* kBlockSize - block_offset - header_size bytes, every fragment between the
\* first and the last has kBlockSize - header_size bytes and the last has the
\* remainder. With kBlockSize = 32768, the legacy header of 7 bytes and
\* block_offset_ = 0, AddRecord of 40000 bytes makes exactly two appends, a First
\* record of 32761 bytes and a Last record of 7239 bytes, no padding, and leaves
\* block_offset_ = 7246.
C10_GreedySplit ==
  \A c \in 1..Len(calls) :
    LET hs == HeaderSizeOf(recycle_log_files_)
        L == calls[c].slice.size
        r == RecordsOf(c)
        k == Len(r)
    IN  (Finished(c) /\ AllAccepted(c)) =>
          /\ r[1].at = AfterRoll(calls[c].start, hs)
          /\ (L > kBlockSize - r[1].at - hs) =>
               /\ k >= 2
               /\ r[1].payload.size = kBlockSize - r[1].at - hs
               /\ \A j \in 2..(k - 1) : r[j].payload.size = kBlockSize - hs
               /\ r[k].payload.size = L - PayloadTotal(SubSeq(r, 1, k - 1), 1)
               /\ r[k].payload.size > 0
               /\ \A j \in 2..k : r[j].at = 0
          /\ (~recycle_log_files_ /\ calls[c].start = 0 /\ L = 40000) =>
               /\ Len(AppendsOf(c)) = 2 /\ k = 2
               /\ TypeField(r[1]) = kFirstType /\ LengthField(r[1]) = 32761
               /\ TypeField(r[2]) = kLastType /\ LengthField(r[2]) = 7239
               /\ calls[c].end = 7246

\* the 40000-byte record written to a fresh legacy log, then a record split in
\* three from the middle of a block
C10_Witness ==
  /\ ~recycle_log_files_
  /\ Len(calls) = 2 /\ Finished(1) /\ Finished(2) /\ AllAccepted(1) /\ AllAccepted(2)
  /\ calls[1].start = 0 /\ calls[1].slice.size = 40000
  /\ calls[2].start = 7246 /\ Len(RecordsOf(2)) = 3

(* ---------- C11 ---------- *)

\* C11: AddRecord of an empty payload, from any cursor position, runs the loop
\* once: it hands exactly one physical record to the sink, a Full record with
\* fragment length 0, after at most one padding append (made when fewer than
\* header_size bytes, but at least one, were left).
C11_EmptyRecord ==
  \A c \in 1..Len(calls) :
    calls[c].slice.size = 0 =>
      LET r == RecordsOf(c)
          a == AppendsOf(c)
          hs == HeaderSizeOf(recycle_log_files_)
          leftover == kBlockSize - calls[c].start
      IN  /\ Len(r) <= 1
          /\ Finished(c) =>
               /\ Len(r) = 1
               /\ RoleOf(TypeField(r[1])) = "Full"
               /\ LengthField(r[1]) = 0 /\ r[1].payload.size = 0
               /\ Len(a) = (IF 0 < leftover /\ leftover < hs THEN 2 ELSE 1)
               /\ r[1].at = (IF leftover < hs THEN 0 ELSE calls[c].start)

\* an empty record written where less than a header was left in the block
C11_Witness ==
  \E c \in 1..Len(calls) :
    /\ calls[c].slice.size = 0 /\ Finished(c)
    /\ 0 < kBlockSize - calls[c].start
    /\ kBlockSize - calls[c].start < HeaderSizeOf(recycle_log_files_)
    /\ Len(AppendsOf(c)) = 2

(* ---------- C12 ---------- *)

\* C12: an iteration rolls to a new block exactly when fewer than header_size
\* bytes are left in the current one: it then appends as many zero bytes as were
\* left (nothing when nothing was left, never more than header_size - 1) and
\* block_offset_ is 0 right after; otherwise it appends nothing and leaves
\* block_offset_ alone.
C12_BlockRoll ==
  [][\A t \in DOMAIN pc :
       (pc[t] = "roll" /\ pc'[t] = "emit") =>
         LET leftover == kBlockSize - block_offset_
             hs == HeaderSizeOf(recycle_log_files_)
         IN  IF leftover < hs
             THEN /\ block_offset_' = 0
                  /\ IF leftover = 0
                     THEN dest_' = dest_
                     ELSE /\ Len(dest_') = Len(dest_) + 1
                          /\ SubSeq(dest_', 1, Len(dest_)) = dest_
                          /\ LET e == dest_'[Len(dest_')]
                             IN  /\ e.kind = "pad"
                                 /\ EntrySize(e) = leftover
                                 /\ EntrySize(e) <= hs - 1
                                 /\ \A j \in 1..Len(e.bytes) : e.bytes[j] = 0
             ELSE /\ block_offset_' = block_offset_
                  /\ dest_' = dest_]_vars

\* a call has rolled once with padding and has just rolled again from a block
\* that was exactly full, without padding
C12_Witness ==
  /\ \E t \in DOMAIN pc : pc[t] = "emit"
  /\ block_offset_ = 0
  /\ \E i \in 1..Len(dest_) : dest_[i].kind = "pad"
  /\ Len(dest_) > 0
  /\ dest_[Len(dest_)].kind = "record"
  /\ dest_[Len(dest_)].ret = 0
  /\ CursorAfter(dest_[Len(dest_)]) = kBlockSize

(* ---------- C13 ---------- *)

\* the type code of the record dest_[i], from its place in its logical record
ExpectedType(i) ==
  LET e == dest_[i]
      slice == calls[e.call].slice
      first == \A j \in 1..(i - 1) :
                 ~(dest_[j].call = e.call /\ dest_[j].kind = "record")
      last == e.payload.data + e.payload.size = slice.data + slice.size
  IN  CodeOf(IF first /\ last THEN "Full"
             ELSE IF first THEN "First"
             ELSE IF last THEN "Last" ELSE "Middle", recycle_log_files_)

\* C13: the header of every physical record handed to the sink, with fragment
\* length n between 0 and 65535, has the checksum in bytes 0-3, least significant
\* byte first, n mod 256 in byte 4, n div 256 in byte 5 (the two bytes decode to
\* n), the type code in byte 6, and goes to the sink in one append together with
\* exactly n payload bytes.
C13_HeaderLayout ==
  \A i \in 1..Len(dest_) :
    dest_[i].kind = "record" =>
      LET e == dest_[i]
          n == e.payload.size
          k == calls[e.call].crc
      IN  /\ 0 <= n /\ n <= 65535
          /\ Len(e.bytes) >= 7
          /\ e.bytes[1] = k % 256
          /\ e.bytes[2] = (k \div 256) % 256
          /\ e.bytes[3] = (k \div 65536) % 256
          /\ e.bytes[4] = k \div 16777216
          /\ e.bytes[5] = n % 256
          /\ e.bytes[6] = n \div 256
          /\ e.bytes[5] + 256 * e.bytes[6] = n
          /\ e.bytes[7] = ExpectedType(i)
          /\ \A j \in 1..7 : e.bytes[j] \in 0..255

\* a fragment of 32761 bytes under the caller's checksum 0x01020304: all four
\* checksum bytes and both length bytes differ
C13_Witness ==
  \E i \in 1..Len(dest_) :
    /\ dest_[i].kind = "record" /\ dest_[i].ret = 0
    /\ calls[dest_[i].call].given
    /\ dest_[i].payload.size = 32761
    /\ SubSeq(dest_[i].bytes, 1, 6) = << 4, 3, 2, 1, 249, 127 >>

(* ---------- C15 ---------- *)

\* C15: a rejected padding append changes nothing in what AddRecord does next:
\* block_offset_ is reset to 0 and the next fragment is emitted at offset 0 by the
\* same call; and the status a call returns is IOError exactly when its last
\* header+payload append was rejected, so a call whose padding was rejected
\* returns OK when its records were accepted.
C15_PadResultIgnored ==
  /\ \A i \in 1..Len(dest_) :
       (dest_[i].kind = "pad" /\ dest_[i].ret # 0) =>
         LET c == dest_[i].call
         IN  IF i = Len(dest_)
             THEN /\ block_offset_ = 0
                  /\ calls[c].status = "running"
                  /\ pc[calls[c].thread] = "emit"
             ELSE /\ dest_[i + 1].call = c
                  /\ dest_[i + 1].kind = "record"
                  /\ dest_[i + 1].at = 0
  /\ \A c \in 1..Len(calls) :
       Finished(c) =>
         LET r == RecordsOf(c)
         IN  calls[c].status = (IF r[Len(r)].ret = 0 THEN "OK" ELSE "IOError")

\* a call returned OK although its padding append was rejected
C15_Witness ==
  \E c \in 1..Len(calls) :
    /\ calls[c].status = "OK"
    /\ \E i \in 1..Len(dest_) :
         dest_[i].call = c /\ dest_[i].kind = "pad" /\ dest_[i].ret # 0
    /\ calls[c].slice.size > 0

(* ---------- C18 ---------- *)

\* the number of bytes the sink accepted
TotalAccepted == StreamPos(Accepted, Len(Accepted) + 1)

\* every padding append made so far was accepted
PadsAccepted ==
  \A i \in 1..Len(dest_) : dest_[i].kind = "pad" => dest_[i].ret = 0

\* C18: as long as every padding append was accepted (every header+payload
\* append being accepted or rejected as a whole), block_offset_ is congruent
\* modulo kBlockSize to the number of bytes the sink accepted, and equals
\* kBlockSize only when the current block is exactly full; this holds after calls
\* that returned IOError too, and the stream the sink accepted stays framed in
\* blocks.
C18_CursorTracksSink ==
  PadsAccepted =>
    /\ 0 <= block_offset_ /\ block_offset_ <= kBlockSize
    /\ block_offset_ % kBlockSize = TotalAccepted % kBlockSize
    /\ (block_offset_ = kBlockSize => TotalAccepted > 0)
    /\ BlockFramed(Accepted, HeaderSizeOf(recycle_log_files_))

\* a call padded the block tail, had its first fragment accepted and its second
\* rejected
C18_Witness ==
  /\ BetweenCalls /\ PadsAccepted
  /\ Len(calls) = 2
  /\ calls[2].status = "IOError"
  /\ Len(AppendsOf(2)) = 3
  /\ AppendsOf(2)[1].kind = "pad"
  /\ AppendsOf(2)[2].ret = 0
  /\ TotalAccepted = 2 * kBlockSize

(* ---------- C20 ---------- *)

\* C20: a physical record with fragment length 0 is either the single Full record
\* of an empty logical record, or the First record of a non-empty logical record
\* that started with exactly header_size bytes left in the block; every Middle
\* and every Last record carries at least one payload byte, and every Middle
\* record starts at block offset 0 and fills its block.
C20_ZeroLengthFragments ==
  \A i \in 1..Len(dest_) :
    dest_[i].kind = "record" =>
      LET e == dest_[i]
          c == e.call
          n == e.payload.size
          L == calls[c].slice.size
          role == RoleOf(TypeField(e))
          hs == HeaderSizeOf(recycle_log_files_)
      IN  /\ n = 0 =>
               \/ L = 0 /\ role = "Full"
               \/ /\ L > 0 /\ role = "First"
                  /\ kBlockSize - calls[c].start = hs
                  /\ e.at = calls[c].start
          /\ role \in {"Middle", "Last"} => n >= 1
          /\ role = "Middle" => (e.at = 0 /\ hs + n = kBlockSize)

\* a record that starts with exactly a header's room left: an empty First
\* fragment, two Middle fragments and a Last one
C20_Witness ==
  \E c \in 1..Len(calls) :
    LET r == RecordsOf(c)
    IN  /\ Finished(c) /\ Len(r) = 4
        /\ r[1].payload.size = 0 /\ RoleOf(TypeField(r[1])) = "First"
        /\ RoleOf(TypeField(r[2])) = "Middle" /\ RoleOf(TypeField(r[3])) = "Middle"
        /\ RoleOf(TypeField(r[4])) = "Last" /\ r[4].ret = 0

(* ---------- C19 ---------- *)

\* a thread inside AddRecord keeps running and the sink answers every append
SpecFair ==
  /\ Spec
  /\ \A t \in SeqThreads : WF_vars(Roll(t)) /\ WF_vars(Emit(t))

\* the most physical records a payload of L bytes takes
MaxRecords(L, hs) == (L + (kBlockSize - hs) - 1) \div (kBlockSize - hs) + 1

\* the loop makes progress
LoopProgress ==
  \A c \in 1..Len(calls) :
    LET r == RecordsOf(c)
    IN  /\ \A j \in 1..(Len(r) - 1) : r[j].payload.size + r[j + 1].payload.size >= 1
        /\ Len(r) <= MaxRecords(calls[c].slice.size, HeaderSizeOf(recycle_log_files_))
        /\ \A t \in DOMAIN pc :
             (call[t] = c /\ pc[t] # "idle") =>
               calls[c].slice.size - left[t] = PayloadTotal(r, 1)

\* C19: with a sink that answers every append, every AddRecord call returns: no
\* two consecutive iterations emit an empty fragment (so what is left shrinks at
\* least every second iteration), and a call with a payload of L bytes emits at
\* most ceil(L / (kBlockSize - header_size)) + 1 physical records.
C19_Termination ==
  /\ []LoopProgress
  /\ \A t \in SeqThreads : (pc[t] # "idle") ~> (pc[t] = "idle")

\* a call that took the most records its payload allows: an empty First
\* fragment, then ceil(L / (kBlockSize - header_size)) more
C19_Witness ==
  \E c \in 1..Len(calls) :
    /\ Finished(c)
    /\ calls[c].slice.size = 70000
    /\ Len(RecordsOf(c)) = 4
    /\ Len(RecordsOf(c)) = MaxRecords(70000, HeaderSizeOf(recycle_log_files_))

(* ---------- C17 ---------- *)

\* two threads calling AddRecord on the same writer
RaceThreads == {1, 2}

InitRace == WriterInit(RaceThreads)

\* variant: a mutex is held for the whole of a call
Unlocked_Mutex(t) == \A u \in DOMAIN pc : u # t => pc[u] = "idle"

\* add_record_with_crc acquires nothing before it reads and writes
\* block_offset_ and dest_ (lines 220-233): a call may start whatever the other
\* thread is doing
Unlocked(t) == TRUE

\* each thread makes one call
RaceAddRecord(t) == call[t] = 0 /\ Unlocked(t) /\ AddRecord(t)

RaceAddRecordCrc(t) == call[t] = 0 /\ Unlocked(t) /\ AddRecordCrc(t)

\* the steps of the calls of the two threads interleave freely; each step is
\* taken as a whole, which leaves out the interleavings inside a step and adds
\* none
NextRace ==
  \/ \E t \in DOMAIN pc : RaceAddRecord(t)
  \/ \E t \in DOMAIN pc : RaceAddRecordCrc(t)
  \/ \E t \in DOMAIN pc : Roll(t)
  \/ \E t \in DOMAIN pc : Emit(t)

SpecRace == InitRace /\ [][NextRace]_vars

\* the records of the sink belong to call c, then to another call, then to c
Interleaved ==
  \E i, j, k \in 1..Len(dest_) :
    /\ i < j /\ j < k
    /\ dest_[i].call = dest_[k].call
    /\ dest_[j].call # dest_[i].call
    /\ dest_[i].kind = "record" /\ dest_[j].kind = "record" /\ dest_[k].kind = "record"

\* C17: nothing in the writer blocks or detects two AddRecord calls whose steps
\* interleave: a thread can always start its call and take the next step of its
\* call whatever the other thread is doing, and a call returns IOError only when
\* the sink rejected its last record. (The states this makes reachable are those
\* of C17_Witness.)
C17_NoSynchronization ==
  /\ \A t \in RaceThreads :
       /\ (pc[t] = "idle" /\ call[t] = 0) => ENABLED RaceAddRecord(t)
       /\ pc[t] = "roll" => ENABLED Roll(t)
       /\ pc[t] = "emit" => ENABLED Emit(t)
  /\ \A c \in 1..Len(calls) :
       Finished(c) =>
         LET r == RecordsOf(c)
         IN  calls[c].status = (IF r[Len(r)].ret = 0 THEN "OK" ELSE "IOError")

\* with every append accepted, the fragments of the two records are interleaved
\* in the sink, an emission broke block_offset_ + header_size + n <= kBlockSize,
\* and block_offset_ is no longer the number of bytes accepted modulo kBlockSize
C17_Witness ==
  /\ \A i \in 1..Len(dest_) : dest_[i].ret = 0
  /\ Interleaved
  /\ assert_failed \cap {289, 293} # {}
  /\ block_offset_ % kBlockSize # TotalAccepted % kBlockSize

(* ---------- construction and teardown, lines 165-210 ---------- *)

\* the value of a pointer member no constructor initialiser sets
IndeterminatePtr == {"null", "wild"}

\* the compatibility constructor (lines 179-188) initialises block_offset_,
\* log_number_ and recycle_log_files_ and nothing else: dest_ has no
\* initialiser and the unique_ptr argument is never moved from
CompatCtor(dest) ==
  /\ ctor = "compat"
  /\ dest_arg = dest
  /\ dest_ptr \in IndeterminatePtr
  /\ use_allocator = FALSE
  /\ released = << >>
  /\ writer = "alive"

\* a writer built by either constructor
InitLife ==
  /\ MemberInit(SeqThreads)
  /\ \/ \E a \in BOOLEAN : PrimaryCtor("sink", a)
     \/ PrimaryCtor("null", FALSE)
     \/ CompatCtor("sink")

\* what a member call through a pointer that is not the sink's may do
BadDeref == {"crashed", "undefined"}

\* the arena argument of delete_file_writer
Arenas == {"null", "arena"}

\* variant: the null test is dropped
Holds_Always(p) == TRUE

\* nullptr != dest_, lines 191 and 202
Holds(p) == p # "null"

\* variant: the destructor always frees the memory
DestructorPath_Default(sink_use_allocator) == "default"

\* lines 192-197: the sink's destructor only (the memory is the allocator's), or
\* MOD_DELETE_OBJECT
DestructorPath(sink_use_allocator) ==
  IF sink_use_allocator THEN "destructor_only" ELSE "default"

\* lines 204-208: FREE_OBJECT into the arena, or MOD_DELETE_OBJECT
DeletePath(arena) == IF arena # "null" THEN "arena" ELSE "default"

\* the pointer after FREE_OBJECT(T, arena, ptr) or MOD_DELETE_OBJECT(T, ptr): the
\* macros reset the pointer they release
AfterReleaseMacro(p) == "null"

\* dest_ = nullptr, line 194
AfterDestructorCall(p) == "null"

\* a release of the object p points to, made by teardown operation by
Release(by, arena, how, p) == [by |-> by, arena |-> arena, how |-> how, target |-> p]

\* no AddRecord call is running
Idle == \A t \in DOMAIN pc : pc[t] = "idle"

\* Writer::~Writer, lines 190-199
Destructor ==
  /\ writer = "alive"
  /\ Idle
  /\ IF Holds(dest_ptr)
     THEN IF dest_ptr = "wild"
          THEN /\ writer' \in BadDeref
               /\ UNCHANGED << released, dest_ptr >>
          ELSE /\ released' = Append(released,
                        Release("~Writer", "null", DestructorPath(use_allocator),
                                dest_ptr))
               /\ dest_ptr' = IF use_allocator
                              THEN AfterDestructorCall(dest_ptr)
                              ELSE AfterReleaseMacro(dest_ptr)
               /\ writer' = "destroyed"
     ELSE /\ writer' = "destroyed"
          /\ UNCHANGED << released, dest_ptr >>
  /\ UNCHANGED << block_offset_, log_number_, recycle_log_files_, dest_, pc, call,
                  crc, header_size, ptr, left, begin, calls, assert_failed, ctor,
                  dest_arg, use_allocator >>

\* Writer::delete_file_writer, lines 201-210; dest_->delete_write_file(arena)
\* acts on the file inside the sink, which the writer never reads
DeleteFileWriter(arena) ==
  /\ writer = "alive"
  /\ Idle
  /\ IF Holds(dest_ptr)
     THEN IF dest_ptr = "wild"
          THEN /\ writer' \in BadDeref
               /\ UNCHANGED << released, dest_ptr >>
          ELSE /\ released' = Append(released,
                        Release("delete_file_writer", arena, DeletePath(arena),
                                dest_ptr))
               /\ dest_ptr' = AfterReleaseMacro(dest_ptr)
               /\ writer' = writer
     ELSE UNCHANGED << released, dest_ptr, writer >>
  /\ UNCHANGED << block_offset_, log_number_, recycle_log_files_, dest_, pc, call,
                  crc, header_size, ptr, left, begin, calls, assert_failed, ctor,
                  dest_arg, use_allocator >>

\* dest_->append(...) of lines 242 and 308 when dest_ is not the sink's address
Fault(t) ==
  /\ writer = "alive"
  /\ dest_ptr # "sink"
  /\ \/ pc[t] = "emit"
     \/ /\ pc[t] = "roll"
        /\ NeedRoll(Leftover(block_offset_), header_size[t])
        /\ Leftover(block_offset_) > 0
  /\ writer' \in BadDeref
  /\ UNCHANGED << block_offset_, log_number_, recycle_log_files_, dest_, pc, call,
                  crc, header_size, ptr, left, begin, calls, assert_failed, ctor,
                  dest_arg, dest_ptr, use_allocator, released >>

\* the one AddRecord call of a writer's life that the lifetime is checked with
LifeAddRecord(t) == call[t] = 0 /\ AddRecord(t)

NextLife ==
  \/ \E t \in DOMAIN pc : LifeAddRecord(t)
  \/ \E t \in DOMAIN pc : Roll(t)
  \/ \E t \in DOMAIN pc : Emit(t)
  \/ \E t \in DOMAIN pc : Fault(t)
  \/ \E arena \in Arenas : DeleteFileWriter(arena)
  \/ Destructor

SpecLife == InitLife /\ [][NextLife]_vars

(* ---------- C14 ---------- *)

\* C14: a writer built by the compatibility constructor is a writer like one
\* built by the primary constructor: it starts at block_offset_ = 0, it holds
\* the sink it was given, and its AddRecord and its teardown act on that sink:
\* no call through dest_ goes wrong, a finished call has appended its record to
\* the sink, and the destroyed writer has released the sink.
C14_CompatCtor ==
  ctor = "compat" =>
    /\ (calls = << >>) => block_offset_ = 0
    /\ (writer = "alive" /\ released = << >>) => dest_ptr = dest_arg
    /\ writer \notin BadDeref
    /\ \A c \in 1..Len(calls) : Finished(c) => RecordsOf(c) # << >>
    /\ writer = "destroyed" =>
         /\ Len(released) = 1
         /\ released[1].target = dest_arg

(* ---------- C16 ---------- *)

====
